---- MODULE Spec2Model ----
(***************************************************************************)
(* Oil Record Book Tool: the configuration module (src/config.py) and the  *)
(* application factory (src/app.py).                                       *)
(*                                                                         *)
(* Strings the code transforms (lower(), split(","), int()) are sequences  *)
(* of one-character strings; strings the code only passes along are TLA+   *)
(* strings.  The process environment is a partial function, as os.environ  *)
(* is: a variable that is not set is not in its domain.                    *)
(***************************************************************************)
EXTENDS FiniteSets, Integers, Sequences, TLC

VARIABLES
    environ,    \* os.environ, after load_dotenv()
    modstate,   \* import of config/app: "unloaded", "loaded" or "failed"
    loadEnv,    \* the environment the class bodies of config.py were run in
    classes,    \* the attributes each configuration class defines itself
    heap,       \* the list objects, by identity (a reference is [ref |-> i])
    apps,       \* the instances create_app has returned, in order
    tables,     \* the tables of the database
    users,      \* the identifiers of the rows of the user table
    ret,        \* what the most recent call returned or raised
    nwrites,    \* the writes to os.environ since the import
    nmut        \* the mutations of instances' settings so far

vars == <<environ, modstate, loadEnv, classes, heap, apps, tables, users, ret,
          nwrites, nmut>>

(***************************************************************************)
(* Bounds                                                                  *)
(***************************************************************************)
MaxApps == 2        \* create_app calls that return an instance
MaxEnvWrites == 2   \* writes to os.environ after the import
MaxMutations == 1   \* mutations of instances' settings
MaxIdLen == 3       \* length of the identifier strings given to load_user
MaxCorsLen == 3     \* length of the CORS_ORIGINS values swept
MaxFlagLen == 4     \* length of the SESSION_SECURE values swept

(***************************************************************************)
(* Python string operations                                                *)
(***************************************************************************)
Digits == <<"0", "1", "2", "3", "4", "5", "6", "7", "8", "9">>

IsDigit(c) == \E i \in 1..10 : Digits[i] = c

DigitVal(c) == (CHOOSE i \in 1..10 : Digits[i] = c) - 1

Whitespace == {" "}

Upper == <<"A", "B", "C", "D", "E", "F", "G", "H", "I", "J", "K", "L", "M",
           "N", "O", "P", "Q", "R", "S", "T", "U", "V", "W", "X", "Y", "Z">>

Lower == <<"a", "b", "c", "d", "e", "f", "g", "h", "i", "j", "k", "l", "m",
           "n", "o", "p", "q", "r", "s", "t", "u", "v", "w", "x", "y", "z">>

\* str.lower() of one character
LowerChar(c) ==
    IF \E i \in 1..26 : Upper[i] = c
    THEN Lower[CHOOSE i \in 1..26 : Upper[i] = c]
    ELSE c

\* str.lower()
StrLower(s) == [i \in 1..Len(s) |-> LowerChar(s[i])]

RECURSIVE LStrip(_)
LStrip(s) ==
    IF s # <<>> /\ Head(s) \in Whitespace THEN LStrip(Tail(s)) ELSE s

RECURSIVE RStrip(_)
RStrip(s) ==
    IF s # <<>> /\ s[Len(s)] \in Whitespace
    THEN RStrip(SubSeq(s, 1, Len(s) - 1))
    ELSE s

\* str.strip()
Strip(s) == RStrip(LStrip(s))

\* str.split(sep) for a one-character separator: the pieces between the
\* separators, empty pieces included
RECURSIVE StrSplit(_, _)
StrSplit(s, sep) ==
    IF \E i \in 1..Len(s) : s[i] = sep
    THEN LET i == CHOOSE j \in 1..Len(s) :
                      s[j] = sep /\ \A k \in 1..(j - 1) : s[k] # sep
         IN  <<SubSeq(s, 1, i - 1)>> \o StrSplit(SubSeq(s, i + 1, Len(s)), sep)
    ELSE <<s>>

\* the value of a run of digits and underscores, most significant first
RECURSIVE DigitsValue(_, _)
DigitsValue(s, acc) ==
    IF s = <<>> THEN acc
    ELSE IF Head(s) = "_" THEN DigitsValue(Tail(s), acc)
    ELSE DigitsValue(Tail(s), 10 * acc + DigitVal(Head(s)))

\* the digits of an integer literal: digits, with single underscores between
IsDigitRun(s) ==
    /\ s # <<>>
    /\ \A i \in 1..Len(s) : IsDigit(s[i]) \/ s[i] = "_"
    /\ IsDigit(s[1]) /\ IsDigit(s[Len(s)])
    /\ \A i \in 1..(Len(s) - 1) : ~(s[i] = "_" /\ s[i + 1] = "_")

\* int(s) for a string s: [ok |-> TRUE, val |-> n], or ok = FALSE for the
\* ValueError
PyInt(s) ==
    LET t == Strip(s)
        signed == t # <<>> /\ Head(t) \in {"+", "-"}
        body == IF signed THEN Tail(t) ELSE t
    IN  IF IsDigitRun(body)
        THEN [ok |-> TRUE,
              val |-> IF signed /\ Head(t) = "-"
                      THEN 0 - DigitsValue(body, 0)
                      ELSE DigitsValue(body, 0)]
        ELSE [ok |-> FALSE, val |-> 0]

\* str(n) for an integer n
RECURSIVE NatStr(_)
NatStr(n) ==
    IF n < 10 THEN <<Digits[n + 1]>>
    ELSE NatStr(n \div 10) \o <<Digits[(n % 10) + 1]>>

PyStr(n) == IF n < 0 THEN <<"-">> \o NatStr(0 - n) ELSE NatStr(n)

(***************************************************************************)
(* The environment                                                         *)
(***************************************************************************)
EnvNames == {"FLASK_ENV", "SECRET_KEY", "DATABASE_URL", "REDIS_URL",
             "CORS_ORIGINS", "SESSION_SECURE", "LOG_LEVEL",
             "LOG_JSON_FORMAT", "LOG_MAX_BYTES", "LOG_BACKUP_COUNT"}

\* os.environ.get(name, default)
EnvGet(e, name, default) == IF name \in DOMAIN e THEN e[name] ELSE default

\* os.environ[name] = v
EnvPut(e, name, v) ==
    [k \in DOMAIN e \cup {name} |-> IF k = name THEN v ELSE e[k]]

\* the environments that set some of the names, each to one of values[name]
RECURSIVE EnvSpace(_, _)
EnvSpace(names, values) ==
    IF names = {} THEN {<<>>}
    ELSE LET n == CHOOSE x \in names : TRUE
             rest == EnvSpace(names \ {n}, values)
         IN  rest \cup {EnvPut(e, n, v) : e \in rest, v \in values[n]}

(***************************************************************************)
(* config.py: the configuration classes                                    *)
(***************************************************************************)
StrTrueLower == <<"t", "r", "u", "e">>

StrTrue == <<"T", "r", "u", "e">>

StrFalse == <<"F", "a", "l", "s", "e">>

DefaultCorsOrigins ==
    <<"h", "t", "t", "p", ":", "/", "/", "l", "o", "c", "a", "l", "h", "o", "s", "t", ":", "5", "0", "0", "1">> \o <<",">> \o
    <<"h", "t", "t", "p", "s", ":", "/", "/", "l", "o", "c", "a", "l", "h", "o", "s", "t", ":", "5", "0", "0", "1">>

DefaultLogMaxBytes == 10 * 1024 * 1024

DefaultLogBackupCount == 5

\* os.environ.get(name, default).lower() == "true"
EnvFlag(e, name, default) == StrLower(EnvGet(e, name, default)) = StrTrueLower

\* EnvInt, were a value that is not an integer replaced by the default
EnvIntLenient(e, name, default) ==
    IF name \in DOMAIN e /\ PyInt(e[name]).ok
    THEN PyInt(e[name])
    ELSE [ok |-> TRUE, val |-> default]

\* int(os.environ.get(name, default)) for an integer default
EnvInt(e, name, default) ==
    IF name \in DOMAIN e THEN PyInt(e[name]) ELSE [ok |-> TRUE, val |-> default]

\* CorsOrigins, were the empty pieces dropped
CorsOriginsNoEmpty(e) ==
    LET nonempty(x) == x # <<>>
    IN  SelectSeq(StrSplit(EnvGet(e, "CORS_ORIGINS", DefaultCorsOrigins), ","),
                  nonempty)

\* os.environ.get("CORS_ORIGINS", ...).split(",")
CorsOrigins(e) == StrSplit(EnvGet(e, "CORS_ORIGINS", DefaultCorsOrigins), ",")

\* SessionCookieSecure, were the value compared without lower()
SessionCookieSecureExact(e) ==
    EnvGet(e, "SESSION_SECURE", StrFalse) = StrTrueLower

\* os.environ.get("SESSION_SECURE", "False").lower() == "true"
SessionCookieSecure(e) == EnvFlag(e, "SESSION_SECURE", StrFalse)

\* the one list object the body of Config creates
CorsRef == [ref |-> 1]

\* the attributes the body of class Config binds, run in environment e
ConfigBody(e) ==
    [BASE_DIR |-> "BASE_DIR",
     SECRET_KEY |-> EnvGet(e, "SECRET_KEY", "dev-key-change-in-production"),
     SQLALCHEMY_DATABASE_URI |->
         EnvGet(e, "DATABASE_URL", "sqlite:///BASE_DIR/data/orb.db"),
     SQLALCHEMY_TRACK_MODIFICATIONS |-> FALSE,
     SOUNDING_TABLES_PATH |-> "BASE_DIR/data/sounding_tables.json",
     WTF_CSRF_ENABLED |-> TRUE,
     WTF_CSRF_TIME_LIMIT |-> 3600,
     MAX_CONTENT_LENGTH |-> 16 * 1024 * 1024,
     RATELIMIT_STORAGE_URL |-> EnvGet(e, "REDIS_URL", "memory://"),
     CORS_ORIGINS |-> CorsRef,
     SESSION_COOKIE_SECURE |-> SessionCookieSecure(e),
     SESSION_COOKIE_HTTPONLY |-> TRUE,
     SESSION_COOKIE_SAMESITE |-> "Lax",
     LOG_LEVEL |-> EnvGet(e, "LOG_LEVEL", "INFO"),
     LOG_DIR |-> "BASE_DIR/logs",
     LOG_JSON_FORMAT |-> EnvFlag(e, "LOG_JSON_FORMAT", StrTrue),
     LOG_MAX_BYTES |-> EnvInt(e, "LOG_MAX_BYTES", DefaultLogMaxBytes).val,
     LOG_BACKUP_COUNT |->
         EnvInt(e, "LOG_BACKUP_COUNT", DefaultLogBackupCount).val]

DevelopmentConfigBody(e) ==
    [DEBUG |-> TRUE,
     LOG_LEVEL |-> EnvGet(e, "LOG_LEVEL", "DEBUG"),
     LOG_JSON_FORMAT |-> EnvFlag(e, "LOG_JSON_FORMAT", StrFalse)]

ProductionConfigBody(e) ==
    [DEBUG |-> FALSE,
     LOG_LEVEL |-> EnvGet(e, "LOG_LEVEL", "INFO"),
     LOG_JSON_FORMAT |-> TRUE]

\* TestingConfigBody, were LOG_LEVEL left to the base class
TestingConfigBodyInheritsLevel(e) ==
    [TESTING |-> TRUE,
     SQLALCHEMY_DATABASE_URI |-> "sqlite:///:memory:",
     LOG_JSON_FORMAT |-> FALSE]

TestingConfigBody(e) ==
    [TESTING |-> TRUE,
     SQLALCHEMY_DATABASE_URI |-> "sqlite:///:memory:",
     LOG_LEVEL |-> "WARNING",
     LOG_JSON_FORMAT |-> FALSE]

ClassNames ==
    {"Config", "DevelopmentConfig", "ProductionConfig", "TestingConfig"}

\* the classes of the module once its body has run in environment e
ModuleClasses(e) ==
    [Config |-> ConfigBody(e),
     DevelopmentConfig |-> DevelopmentConfigBody(e),
     ProductionConfig |-> ProductionConfigBody(e),
     TestingConfig |-> TestingConfigBody(e)]

\* the body of the module runs to its end: both int() calls return
ModuleLoads(e) ==
    /\ EnvInt(e, "LOG_MAX_BYTES", DefaultLogMaxBytes).ok
    /\ EnvInt(e, "LOG_BACKUP_COUNT", DefaultLogBackupCount).ok

\* the dictionary config: profile name to class
config ==
    [development |-> "DevelopmentConfig",
     production |-> "ProductionConfig",
     testing |-> "TestingConfig",
     default |-> "DevelopmentConfig"]

\* the classes a lookup on cls goes through, in order
Mro(cls) == IF cls = "Config" THEN <<"Config">> ELSE <<cls, "Config">>

\* dir(cls), the names in capitals
Dir(cl, cls) == UNION {DOMAIN cl[Mro(cls)[i]] : i \in 1..Len(Mro(cls))}

\* getattr(cls, k): the binding of the first class of the order that has one
GetAttr(cl, cls, k) ==
    LET m == Mro(cls)
        i == CHOOSE j \in 1..Len(m) :
                 k \in DOMAIN cl[m[j]] /\ \A h \in 1..(j - 1) : k \notin DOMAIN cl[m[h]]
    IN  cl[m[i]][k]

\* app.config.from_object(cls): each name bound to the object getattr gives,
\* the list by reference
FromObject(cl, cls) == [k \in Dir(cl, cls) |-> GetAttr(cl, cls, k)]

(***************************************************************************)
(* app.py: the import and the factory                                      *)
(***************************************************************************)
\* the arguments of create_app: <<>> is None, <<n>> the name n
ProfileArgs == {<<>>, <<"default">>, <<"development">>, <<"production">>,
                <<"testing">>, <<"staging">>}

NoCall == [op |-> "none"]

\* SelectedName, were FLASK_ENV to win over the name passed
SelectedNameEnvFirst(config_name, e) ==
    IF "FLASK_ENV" \in DOMAIN e
    THEN e["FLASK_ENV"]
    ELSE IF config_name = <<>> THEN "development" ELSE config_name[1]

\* the profile name create_app looks up
SelectedName(config_name, e) ==
    IF config_name = <<>>
    THEN EnvGet(e, "FLASK_ENV", "development")
    ELSE config_name[1]

\* ClassAttrs, were the class bodies run again at each call
ClassAttrsAtCall == ModuleClasses(environ)

\* the class objects create_app reads: those the import left
ClassAttrs == classes

\* TablesAfterCreateApp, were db.create_all() still called
TablesAfterCreateAll(t) == t \cup {"user"}

\* the tables of the database after create_app: db.init_app and Migrate
\* register the extensions and run no DDL
TablesAfterCreateApp(t) == t

\* Routes, were the history view wrapped in login_required
RoutesGated ==
    <<[rule |-> "/", endpoint |-> "dashboard",
       template |-> "dashboard.html", login_required |-> FALSE],
      [rule |-> "/soundings", endpoint |-> "weekly_soundings",
       template |-> "soundings.html", login_required |-> FALSE],
      [rule |-> "/history", endpoint |-> "history",
       template |-> "history.html", login_required |-> TRUE],
      [rule |-> "/fuel", endpoint |-> "fuel_tickets",
       template |-> "fuel.html", login_required |-> FALSE],
      [rule |-> "/new-hitch", endpoint |-> "new_hitch",
       template |-> "new_hitch.html", login_required |-> FALSE]>>

\* the page routes create_app registers, in order; none of the views is
\* wrapped in login_required
Routes ==
    <<[rule |-> "/", endpoint |-> "dashboard",
       template |-> "dashboard.html", login_required |-> FALSE],
      [rule |-> "/soundings", endpoint |-> "weekly_soundings",
       template |-> "soundings.html", login_required |-> FALSE],
      [rule |-> "/history", endpoint |-> "history",
       template |-> "history.html", login_required |-> FALSE],
      [rule |-> "/fuel", endpoint |-> "fuel_tickets",
       template |-> "fuel.html", login_required |-> FALSE],
      [rule |-> "/new-hitch", endpoint |-> "new_hitch",
       template |-> "new_hitch.html", login_required |-> FALSE]>>

\* import config (app.py line 11): the class bodies run once, in the
\* environment of that moment; a ValueError of int() ends the import
LoadConfig ==
    /\ modstate = "unloaded"
    /\ loadEnv' = environ
    /\ IF ModuleLoads(environ)
       THEN /\ modstate' = "loaded"
            /\ classes' = ModuleClasses(environ)
            /\ heap' = <<CorsOrigins(environ)>>
       ELSE /\ modstate' = "failed"
            /\ UNCHANGED <<classes, heap>>
    /\ UNCHANGED <<environ, apps, tables, users, ret, nwrites, nmut>>

\* create_app(config_name)
CreateApp(config_name) ==
    /\ modstate = "loaded"
    /\ Len(apps) < MaxApps
    /\ LET name == SelectedName(config_name, environ)
       IN  IF name \in DOMAIN config
           THEN /\ apps' = Append(apps,
                               [config |-> FromObject(ClassAttrs, config[name]),
                                url_map |-> Routes,
                                login_view |-> "auth.login"])
                /\ ret' = [op |-> "create_app", arg |-> config_name,
                           outcome |-> "ok"]
           ELSE /\ apps' = apps
                /\ ret' = [op |-> "create_app", arg |-> config_name,
                           outcome |-> "KeyError"]
    /\ tables' = TablesAfterCreateApp(tables)
    /\ UNCHANGED <<environ, modstate, loadEnv, classes, heap, users, nwrites,
                   nmut>>

(***************************************************************************)
(* Requests to an instance                                                 *)
(***************************************************************************)
\* load_user(user_id): User.query.get(int(user_id))
LoadUserResult(user_id, rows) ==
    LET n == PyInt(user_id)
    IN  IF ~n.ok THEN [outcome |-> "ValueError", user |-> 0]
        ELSE IF n.val \in rows THEN [outcome |-> "user", user |-> n.val]
        ELSE [outcome |-> "None", user |-> 0]

\* the session manager calls the user-loader of instance i
LoadUser(i, user_id) ==
    /\ i \in 1..Len(apps)
    /\ "user" \in tables
    /\ ret' = [op |-> "load_user", app |-> i, arg |-> user_id,
               outcome |-> LoadUserResult(user_id, users).outcome,
               user |-> LoadUserResult(user_id, users).user]
    /\ UNCHANGED <<environ, modstate, loadEnv, classes, heap, apps, tables,
                   users, nwrites, nmut>>

\* the answer of a view: a view wrapped in login_required sends a request
\* without a logged-in user to the login view, any other view renders its
\* template
ViewResponse(route, login_view, authenticated) ==
    IF route.login_required /\ ~authenticated
    THEN [status |-> 302, template |-> "", location |-> login_view]
    ELSE [status |-> 200, template |-> route.template, location |-> ""]

\* the answer of an instance to GET path
Dispatch(app, path, authenticated) ==
    IF \E r \in 1..Len(app.url_map) : app.url_map[r].rule = path
    THEN LET r == CHOOSE q \in 1..Len(app.url_map) :
                      /\ app.url_map[q].rule = path
                      /\ \A h \in 1..(q - 1) : app.url_map[h].rule # path
         IN  ViewResponse(app.url_map[r], app.login_view, authenticated)
    ELSE [status |-> 404, template |-> "", location |-> ""]

RequestPaths == {"/", "/soundings", "/history", "/fuel", "/new-hitch",
                 "/missing"}

\* GET path on instance i, with or without a logged-in user
Request(i, path, authenticated) ==
    /\ i \in 1..Len(apps)
    /\ ret' = [op |-> "request", app |-> i, arg |-> <<path>>,
               auth |-> authenticated,
               response |-> Dispatch(apps[i], path, authenticated)]
    /\ UNCHANGED <<environ, modstate, loadEnv, classes, heap, apps, tables,
                   users, nwrites, nmut>>

(***************************************************************************)
(* What the surrounding program does to the environment, the instances     *)
(* and the database                                                        *)
(***************************************************************************)
\* the values written to os.environ after the import
WriteValues ==
    [FLASK_ENV |-> {"production", "testing"},
     SECRET_KEY |-> {"rotated"},
     DATABASE_URL |-> {"postgresql://db/orb"},
     REDIS_URL |-> {"redis://cache:6379"},
     CORS_ORIGINS |-> {<<"a", ",", "b">>},
     SESSION_SECURE |-> {StrTrueLower},
     LOG_LEVEL |-> {"ERROR"},
     LOG_JSON_FORMAT |-> {StrTrueLower},
     LOG_MAX_BYTES |-> {<<"1", "k">>},
     LOG_BACKUP_COUNT |-> {<<"9">>}]

\* os.environ[name] = v, after the import
SetEnviron(name, v) ==
    /\ modstate = "loaded"
    /\ nwrites < MaxEnvWrites
    /\ EnvGet(environ, name, <<"unset">>) # v
    /\ environ' = EnvPut(environ, name, v)
    /\ nwrites' = nwrites + 1
    /\ UNCHANGED <<modstate, loadEnv, classes, heap, apps, tables, users, ret,
                   nmut>>

\* del os.environ[name], after the import
DelEnviron(name) ==
    /\ modstate = "loaded"
    /\ nwrites < MaxEnvWrites
    /\ name \in DOMAIN environ
    /\ environ' = [k \in DOMAIN environ \ {name} |-> environ[k]]
    /\ nwrites' = nwrites + 1
    /\ UNCHANGED <<modstate, loadEnv, classes, heap, apps, tables, users, ret,
                   nmut>>

\* the settings rebound on an instance
SettingWrites == {<<"SECRET_KEY", "per-instance">>, <<"LOG_LEVEL", "CRITICAL">>}

\* apps[i].config[k] = v: the name is rebound in the mapping of instance i
SetSetting(i, k, v) ==
    /\ i \in 1..Len(apps)
    /\ nmut < MaxMutations
    /\ apps' = [apps EXCEPT ![i].config[k] = v]
    /\ nmut' = nmut + 1
    /\ UNCHANGED <<environ, modstate, loadEnv, classes, heap, tables, users,
                   ret, nwrites>>

ExtraOrigin == <<"x">>

\* apps[i].config["CORS_ORIGINS"].append(origin): the list object the
\* setting refers to is changed in place
AppendCors(i, origin) ==
    /\ i \in 1..Len(apps)
    /\ nmut < MaxMutations
    /\ heap' = [heap EXCEPT ![apps[i].config["CORS_ORIGINS"].ref] =
                                Append(@, origin)]
    /\ nmut' = nmut + 1
    /\ UNCHANGED <<environ, modstate, loadEnv, classes, apps, tables, users,
                   ret, nwrites>>

\* the tables the migrations create
MigratedTables == {"alembic_version", "user"}

\* the migration subsystem brings the schema up to date
MigrateUpgrade ==
    /\ tables # MigratedTables
    /\ tables' = MigratedTables
    /\ UNCHANGED <<environ, modstate, loadEnv, classes, heap, apps, users, ret,
                   nwrites, nmut>>

(***************************************************************************)
(* Specifications                                                          *)
(***************************************************************************)
InitRest ==
    /\ modstate = "unloaded"
    /\ loadEnv = <<>>
    /\ classes = <<>>
    /\ heap = <<>>
    /\ apps = <<>>
    /\ ret = NoCall
    /\ nwrites = 0
    /\ nmut = 0

\* the environments the process is started in
BootValues ==
    [FLASK_ENV |-> {"production", "staging"},
     SECRET_KEY |-> {"s3cret"},
     CORS_ORIGINS |-> {<<"a", ",", "b">>},
     LOG_MAX_BYTES |-> {<<"1", "2">>, <<"1", "k">>},
     LOG_BACKUP_COUNT |-> {<<"3">>, <<>>}]

\* The factory and the environment: the program writes to os.environ
\* between the calls of create_app
Init ==
    /\ environ \in EnvSpace({"FLASK_ENV", "SECRET_KEY"}, BootValues)
    /\ tables = {}
    /\ users = {}
    /\ InitRest

Next ==
    \/ LoadConfig
    \/ \E a \in ProfileArgs : CreateApp(a)
    \/ \E n \in EnvNames : \E v \in WriteValues[n] : SetEnviron(n, v)
    \/ \E n \in EnvNames : DelEnviron(n)

Spec == Init /\ [][Next]_vars

\* The factory and the database: the import may fail, the migrations run
InitSchema ==
    /\ environ \in EnvSpace({"FLASK_ENV", "LOG_MAX_BYTES", "LOG_BACKUP_COUNT"},
                            BootValues)
    /\ tables = {}
    /\ users = {}
    /\ InitRest

NextSchema ==
    \/ LoadConfig
    \/ \E a \in ProfileArgs : CreateApp(a)
    \/ MigrateUpgrade

SpecSchema == InitSchema /\ [][NextSchema]_vars

\* The factory and its instances: the program changes settings of the
\* instances it has
InitShare ==
    /\ environ \in EnvSpace({"FLASK_ENV", "CORS_ORIGINS"}, BootValues)
    /\ tables = {}
    /\ users = {}
    /\ InitRest

NextShare ==
    \/ LoadConfig
    \/ \E a \in ProfileArgs : CreateApp(a)
    \/ \E i \in 1..MaxApps : \E w \in SettingWrites : SetSetting(i, w[1], w[2])
    \/ \E i \in 1..MaxApps : AppendCors(i, ExtraOrigin)

SpecShare == InitShare /\ [][NextShare]_vars

\* the strings of at most n characters of an alphabet
Strings(alphabet, n) == UNION {[1..k -> alphabet] : k \in 0..n}

\* Serving: instances answer requests
InitServe ==
    /\ environ \in EnvSpace({"FLASK_ENV"}, BootValues)
    /\ tables = MigratedTables
    /\ users = {}
    /\ InitRest

NextServe ==
    \/ LoadConfig
    \/ \E a \in ProfileArgs : CreateApp(a)
    \/ \E i \in 1..MaxApps : \E p \in RequestPaths : \E a \in BOOLEAN :
           Request(i, p, a)

SpecServe == InitServe /\ [][NextServe]_vars

\* Session restoration: the user-loader is given identifier strings
UserIds == {1, 10}

IdAlphabet == {"0", "1", "a", "-", " "}

InitLoader ==
    /\ environ = <<>>
    /\ tables = MigratedTables
    /\ users \in SUBSET UserIds
    /\ InitRest

NextLoader ==
    \/ LoadConfig
    \/ \E a \in ProfileArgs : CreateApp(a)
    \/ \E i \in 1..MaxApps : \E u \in Strings(IdAlphabet, MaxIdLen) :
           LoadUser(i, u)

SpecLoader == InitLoader /\ [][NextLoader]_vars

\* The environments that bear on the testing profile
TestingValues ==
    [DATABASE_URL |-> {"postgresql://db/orb"},
     LOG_LEVEL |-> {"ERROR", "DEBUG"},
     LOG_JSON_FORMAT |-> {StrTrueLower, StrTrue, StrFalse}]

InitTesting ==
    /\ environ \in EnvSpace({"DATABASE_URL", "LOG_LEVEL", "LOG_JSON_FORMAT"},
                            TestingValues)
    /\ tables = {}
    /\ users = {}
    /\ InitRest

NextFactory ==
    \/ LoadConfig
    \/ \E a \in ProfileArgs : CreateApp(a)

SpecTesting == InitTesting /\ [][NextFactory]_vars

\* The values of SESSION_SECURE
FlagAlphabet == {"t", "T", "r", "R", "u", "U", "e", "E"}

SessionValues == [SESSION_SECURE |-> Strings(FlagAlphabet, MaxFlagLen)]

InitSession ==
    /\ environ \in EnvSpace({"SESSION_SECURE"}, SessionValues)
    /\ tables = {}
    /\ users = {}
    /\ InitRest

NextImport == LoadConfig

SpecSession == InitSession /\ [][NextImport]_vars

\* The values of CORS_ORIGINS
CorsAlphabet == {"a", "b", ","}

TwoOrigins ==
    <<"h", "t", "t", "p", ":", "/", "/", "a", ".", "c", "o", "m">> \o <<",">> \o
    <<"h", "t", "t", "p", ":", "/", "/", "b", ".", "c", "o", "m">>

CorsValues ==
    [CORS_ORIGINS |-> Strings(CorsAlphabet, MaxCorsLen) \cup {TwoOrigins}]

InitCors ==
    /\ environ \in EnvSpace({"CORS_ORIGINS"}, CorsValues)
    /\ tables = {}
    /\ users = {}
    /\ InitRest

SpecCors == InitCors /\ [][NextFactory]_vars

(***************************************************************************)
(* Properties of the factory                                               *)
(***************************************************************************)
\* the settings of instance i as a reader of apps[i].config sees them: the
\* list-valued setting by its contents
Settings(i) ==
    [k \in DOMAIN apps[i].config |->
        IF k = "CORS_ORIGINS"
        THEN heap[apps[i].config[k].ref]
        ELSE apps[i].config[k]]

\* the class each of the four profile names stands for
ProfileClass(name) ==
    CASE name = "development" -> "DevelopmentConfig"
      [] name = "default" -> "DevelopmentConfig"
      [] name = "production" -> "ProductionConfig"
      [] name = "testing" -> "TestingConfig"

ProfileNames == {"development", "default", "production", "testing"}

\* a step in which create_app returns an instance
Created == Len(apps') = Len(apps) + 1

\* C2: mutating a setting of one instance, a list-valued setting in place
\* included, leaves every setting of every other instance unchanged.
C2_NoSharedConfigState ==
    [][nmut' # nmut =>
          \E i \in 1..Len(apps) :
              \A j \in 1..Len(apps) : j # i => Settings(j)' = Settings(j)]_vars

\* C4: the profile create_app uses is the name passed, else the value of
\* FLASK_ENV, else "development"; the instance gets the settings of the
\* class of that profile, the same class for "default" and "development".
C4_ProfileSelection ==
    [][Created =>
          LET arg == ret'.arg
              name == IF arg # <<>> THEN arg[1]
                      ELSE IF "FLASK_ENV" \in DOMAIN environ
                           THEN environ["FLASK_ENV"]
                           ELSE "development"
          IN  /\ name \in ProfileNames
              /\ apps'[Len(apps')].config =
                     FromObject(classes, ProfileClass(name))]_vars

\* an instance made for a passed name while FLASK_ENV names another profile
C4_Witness ==
    /\ Len(apps) >= 1
    /\ nmut = 0
    /\ ret.op = "create_app" /\ ret.outcome = "ok" /\ ret.arg = <<"testing">>
    /\ "FLASK_ENV" \in DOMAIN environ /\ environ["FLASK_ENV"] = "production"
    /\ "TESTING" \in DOMAIN apps[Len(apps)].config

\* an environment in which one of the two integer settings is not the text
\* of an integer
BadInteger(e) ==
    \E n \in {"LOG_MAX_BYTES", "LOG_BACKUP_COUNT"} :
        n \in DOMAIN e /\ ~PyInt(e[n]).ok

\* C5: when LOG_MAX_BYTES or LOG_BACKUP_COUNT is not the text of an integer
\* the import fails: there is no class of any profile and no instance, ever.
C5_BadIntegerFailsFast ==
    /\ modstate = "unloaded" => classes = <<>> /\ apps = <<>>
    /\ modstate # "unloaded" /\ BadInteger(loadEnv) =>
           modstate = "failed" /\ classes = <<>> /\ apps = <<>>
    /\ modstate = "failed" => environ = loadEnv

\* the import has failed on a value that is not an integer
C5_Witness ==
    /\ modstate = "failed"
    /\ "LOG_MAX_BYTES" \in DOMAIN loadEnv
    /\ loadEnv["LOG_MAX_BYTES"] = <<"1", "k">>

\* C9: a call of create_app leaves the set of tables as it was; the tables
\* change only in a step of the migration subsystem.
C9_NoTablesCreated ==
    [][/\ (Created \/ ret' # ret) => tables' = tables
       /\ tables' # tables => apps' = apps /\ tables' = MigratedTables]_vars

\* every allowed instance has been made and the database has no table
C9_Witness ==
    /\ Len(apps) = MaxApps
    /\ tables = {}
    /\ ret.op = "create_app"

\* C10: an instance gets the settings the class bodies computed from the
\* environment of the import, whatever the environment holds at the call;
\* only FLASK_ENV is read at the call, to select the profile.
C10_EnvironmentReadAtImport ==
    [][Created =>
          LET name == IF ret'.arg # <<>> THEN ret'.arg[1]
                      ELSE EnvGet(environ, "FLASK_ENV", "development")
          IN  /\ apps'[Len(apps')].config =
                     FromObject(ModuleClasses(loadEnv), ProfileClass(name))
              /\ heap' = heap]_vars

\* FLASK_ENV was set and SECRET_KEY changed after the import; the instance
\* made since has the testing profile and the secret key of the import
C10_Witness ==
    /\ "FLASK_ENV" \notin DOMAIN loadEnv
    /\ "SECRET_KEY" \in DOMAIN loadEnv /\ loadEnv["SECRET_KEY"] = "s3cret"
    /\ "FLASK_ENV" \in DOMAIN environ /\ environ["FLASK_ENV"] = "testing"
    /\ "SECRET_KEY" \in DOMAIN environ /\ environ["SECRET_KEY"] = "rotated"
    /\ nmut = 0
    /\ ret.op = "create_app" /\ ret.outcome = "ok" /\ ret.arg = <<>>
    /\ Len(apps) >= 1
    /\ "TESTING" \in DOMAIN apps[Len(apps)].config
    /\ apps[Len(apps)].config["SECRET_KEY"] = "s3cret"

(***************************************************************************)
(* Properties of the requests                                              *)
(***************************************************************************)
\* C1: the user-loader never raises: it returns the user whose identifier
\* has the string form given, and None for every string that does not parse
\* to the identifier of a user, the strings that are not the text of an
\* integer included.
C1_LoaderNeverRaises ==
    ret.op = "load_user" =>
        /\ ret.outcome \in {"user", "None"}
        /\ \A u \in users :
               ret.arg = PyStr(u) => ret.outcome = "user" /\ ret.user = u
        /\ (~\E u \in users : PyInt(ret.arg).ok /\ PyInt(ret.arg).val = u) =>
               ret.outcome = "None"

\* the template each page route renders
PageTemplate ==
    [p \in RequestPaths \ {"/missing"} |->
        CASE p = "/" -> "dashboard.html"
          [] p = "/soundings" -> "soundings.html"
          [] p = "/history" -> "history.html"
          [] p = "/fuel" -> "fuel.html"
          [] p = "/new-hitch" -> "new_hitch.html"]

\* C8: a GET without authentication to any of the five page routes is
\* answered with status 200 by the route's own template, never by a redirect
\* to the login view.
C8_PagesNeedNoLogin ==
    (ret.op = "request" /\ ~ret.auth /\ ret.arg[1] \in DOMAIN PageTemplate) =>
        /\ ret.response.status = 200
        /\ ret.response.template = PageTemplate[ret.arg[1]]
        /\ ret.response.location = ""

\* the second instance has answered /history without a logged-in user
C8_Witness ==
    /\ ret.op = "request" /\ ~ret.auth /\ ret.arg = <<"/history">>
    /\ ret.app = 2
    /\ ret.response.status = 200

(***************************************************************************)
(* Properties of the configuration                                         *)
(***************************************************************************)
\* C3: whatever DATABASE_URL, LOG_LEVEL and LOG_JSON_FORMAT hold, the testing
\* profile has the in-memory database, log level "WARNING" and no JSON log
\* format, in the class and in every instance made for it.
C3_TestingProfileFixed ==
    /\ modstate = "loaded" =>
           LET c == FromObject(classes, "TestingConfig")
           IN  /\ c["SQLALCHEMY_DATABASE_URI"] = "sqlite:///:memory:"
               /\ c["LOG_LEVEL"] = "WARNING"
               /\ c["LOG_JSON_FORMAT"] = FALSE
    /\ \A i \in 1..Len(apps) :
           "TESTING" \in DOMAIN apps[i].config =>
               /\ apps[i].config["SQLALCHEMY_DATABASE_URI"] = "sqlite:///:memory:"
               /\ apps[i].config["LOG_LEVEL"] = "WARNING"
               /\ apps[i].config["LOG_JSON_FORMAT"] = FALSE

\* a testing instance made with all three variables set
C3_Witness ==
    /\ DOMAIN loadEnv = {"DATABASE_URL", "LOG_LEVEL", "LOG_JSON_FORMAT"}
    /\ loadEnv["LOG_JSON_FORMAT"] = StrTrueLower
    /\ loadEnv["LOG_LEVEL"] = "DEBUG"
    /\ ret.op = "create_app" /\ ret.outcome = "ok" /\ ret.arg = <<"testing">>
    /\ "TESTING" \in DOMAIN apps[Len(apps)].config

\* the word true in some letter case
IsTrueAnyCase(s) ==
    /\ Len(s) = 4
    /\ s[1] \in {"t", "T"}
    /\ s[2] \in {"r", "R"}
    /\ s[3] \in {"u", "U"}
    /\ s[4] \in {"e", "E"}

\* C6: in every profile SESSION_COOKIE_SECURE is true when SESSION_SECURE is
\* the word true in any letter case, and false when it is unset or any other
\* string.
C6_SessionSecureFlag ==
    modstate = "loaded" =>
        \A cls \in ClassNames :
            FromObject(classes, cls)["SESSION_COOKIE_SECURE"] =
                ("SESSION_SECURE" \in DOMAIN loadEnv
                    /\ IsTrueAnyCase(loadEnv["SESSION_SECURE"]))

\* the flag is on for a value in mixed case
C6_Witness ==
    /\ modstate = "loaded"
    /\ "SESSION_SECURE" \in DOMAIN loadEnv
    /\ loadEnv["SESSION_SECURE"] = <<"T", "r", "U", "e">>
    /\ FromObject(classes, "ProductionConfig")["SESSION_COOKIE_SECURE"]

\* the number of commas of a string
RECURSIVE Commas(_)
Commas(s) ==
    IF s = <<>> THEN 0
    ELSE (IF Head(s) = "," THEN 1 ELSE 0) + Commas(Tail(s))

\* the pieces put together again, a comma between each two
RECURSIVE JoinCommas(_)
JoinCommas(l) ==
    IF Len(l) = 1 THEN l[1]
    ELSE l[1] \o <<",">> \o JoinCommas(Tail(l))

\* C7: CORS_ORIGINS is the list of the comma-separated pieces of the
\* variable, in order: n commas give n + 1 entries; unset, it is the two
\* localhost origins.
C7_CorsOriginsSplit ==
    modstate = "loaded" =>
        LET l == heap[GetAttr(classes, "Config", "CORS_ORIGINS").ref]
        IN  /\ "CORS_ORIGINS" \in DOMAIN loadEnv =>
                   /\ Len(l) = Commas(loadEnv["CORS_ORIGINS"]) + 1
                   /\ \A i \in 1..Len(l) : Commas(l[i]) = 0
                   /\ JoinCommas(l) = loadEnv["CORS_ORIGINS"]
            /\ "CORS_ORIGINS" \notin DOMAIN loadEnv =>
                   l = <<<<"h", "t", "t", "p", ":", "/", "/", "l", "o", "c", "a", "l", "h", "o", "s", "t", ":", "5", "0", "0", "1">>,
                         <<"h", "t", "t", "p", "s", ":", "/", "/", "l", "o", "c", "a", "l", "h", "o", "s", "t", ":", "5", "0", "0", "1">>>>
            /\ EnvGet(loadEnv, "CORS_ORIGINS", <<>>) = TwoOrigins =>
                   l = <<<<"h", "t", "t", "p", ":", "/", "/", "a", ".", "c", "o", "m">>,
                         <<"h", "t", "t", "p", ":", "/", "/", "b", ".", "c", "o", "m">>>>
            /\ \A i \in 1..Len(apps) : Settings(i)["CORS_ORIGINS"] = l

\* an instance whose list has an empty piece between two commas
C7_Witness ==
    /\ "CORS_ORIGINS" \in DOMAIN loadEnv
    /\ loadEnv["CORS_ORIGINS"] = <<"a", ",", ",">>
    /\ Len(apps) >= 1
    /\ Settings(1)["CORS_ORIGINS"] = <<<<"a">>, <<>>, <<>>>>

====
